---- MODULE Spec2Model ----
(***************************************************************************)
(* Account verification workflow of DjangoBazaar (apps.core.views          *)
(* UserViewSet): registration, activation, resend-activation, email change *)
(* and its confirmation, password reset and its           *)
(* confirmation.  The view code is translated from apps/core/views.py; the *)
(* token service, the email service and the serializers are not part of    *)
(* the available sources and are modelled from the specification.          *)
(***************************************************************************)
EXTENDS Integers, Sequences, FiniteSets, TLC

\* ------------------------------------------------------------------ bounds
MaxUsers == 2        \* rows of the user table
MaxCodes == 4        \* one-time codes issued in a run

Emails    == {"a@example.com", "b@example.com"}
Passwords == {"Test_1234", "New_5678"}
\* The password every registration payload carries.
RegistrationPassword == "Test_1234"
Purposes  == {"activation", "change_email", "reset_password"}
Anonymous == 0

VARIABLES
    users,      \* the user table: sequence of rows, the row index is the id
    tokens,     \* token store: (email, purpose) -> current token or NoToken
    pending,    \* UserVerification rows: set of <<user id, new_email>>
    outbox,     \* mail.outbox: every email sent, in order
    used,       \* codes that have been verified successfully
    jwt,        \* number of (access, refresh) pairs minted per user id
    nextCode,   \* next fresh one-time code
    lapsed,     \* clock: codes 1..lapsed are past their expiry window
    resp,       \* the request handled last and its response status
    flight      \* requests being handled concurrently: worker -> progress

vars == <<users, tokens, pending, outbox, used, jwt, nextCode, lapsed, resp, flight>>

\* ------------------------------------------------------------ user table
UserIds == DOMAIN users

\* django make_password / check_password: the stored credential is a hash
\* of the raw password, and a raw password authenticates iff it hashes to it.
make_password(raw) == <<"pbkdf2_sha256", raw>>

check_password(raw, hash) == hash = make_password(raw)

\* objects.get(email=...) : the id of the row holding the email, 0 if none.
UserByEmail(email) ==
    IF \E u \in UserIds : users[u].email = email
    THEN CHOOSE u \in UserIds : users[u].email = email
    ELSE 0

\* Accounts that can authenticate a request (JWT login needs is_active).
Authenticated == {u \in UserIds : users[u].is_active}

\* ---------------------------------------------------------- token service
\* Codes are issued in clock order and all live for the same fixed window
\* ("will expire after 5 minutes"), so they leave their window in the order
\* of issue: at any instant the expired codes are exactly 1..lapsed.
Expired(otp) == otp <= lapsed

NoToken == 0

\* issue(email, purpose): a new code replaces whatever was stored for the pair.
create_otp_token(tk, email, purpose) ==
    [tk EXCEPT ![<<email, purpose>>] = nextCode]

\* Faulty variant of verify: the purpose is not part of the lookup.
verify_any_purpose(tk, email, purpose, otp) ==
    \E p \in Purposes :
        /\ tk[<<email, p>>] # NoToken
        /\ tk[<<email, p>>] = otp
        /\ ~Expired(tk[<<email, p>>])

\* verify(email, purpose, code): a token exists, is unexpired, value matches.
verify(tk, email, purpose, otp) ==
    /\ tk[<<email, purpose>>] # NoToken
    /\ tk[<<email, purpose>>] = otp
    /\ ~Expired(tk[<<email, purpose>>])

\* Faulty variant of invalidate: the token stays in the store.
invalidate_keeps_token(tk, email, purpose) == tk

\* a successful verification invalidates the token.
invalidate(tk, email, purpose) == [tk EXCEPT ![<<email, purpose>>] = NoToken]

\* ---------------------------------------------------------- email service
Mail(to, purpose) == [to |-> to, purpose |-> purpose, code |-> nextCode]

\* EmailService.send_*_email(email): issue a code and mail it.
SendOtpEmail(email, purpose) ==
    /\ tokens' = create_otp_token(tokens, email, purpose)
    /\ outbox' = Append(outbox, Mail(email, purpose))
    /\ nextCode' = nextCode + 1

CanIssue == nextCode <= MaxCodes

\* OTP values a client submits: every code issued so far, and one value (0)
\* that is never issued.
Otps == 0..(nextCode - 1)

\* ------------------------------------------------------------- responses
\* The request handled last (operation, submitted email and OTP) and its
\* response: HTTP status and error detail.
Response(op, status, detail, email, otp) ==
    [op |-> op, status |-> status, detail |-> detail, email |-> email, otp |-> otp]

NoResponse == Response("none", 0, "", "", 0)

\* Requests are handled one at a time: a handler runs when the previous
\* response has been returned.
Idle == resp = NoResponse

\* The two requests that may be in progress at the same time.
Workers == {1, 2}

\* A worker that handles no request.
NoRequest ==
    [pc |-> "idle", op |-> "none", email |-> "", otp |-> 0, password |-> "",
     user |-> 0, row |-> <<>>, status |-> 0, detail |-> ""]

Init ==
    /\ users = <<>>
    /\ tokens = [k \in Emails \X Purposes |-> NoToken]
    /\ pending = {}
    /\ outbox = <<>>
    /\ used = {}
    /\ jwt = [u \in 1..MaxUsers |-> 0]
    /\ nextCode = 1
    /\ lapsed = 0
    /\ resp = NoResponse
    /\ flight = [w \in Workers |-> NoRequest]

\* A handler that fails changes nothing but the response.
Reject(r) ==
    /\ resp' = r
    /\ UNCHANGED <<users, tokens, pending, outbox, used, jwt, nextCode, lapsed, flight>>

\* ------------------------------------------------------------------ create
\* UserCreateSerializer: only email and password reach validated_data; any
\* other key of the payload (is_active, is_staff, is_superuser) is dropped.
UserCreateSerializer(payload) == [email |-> payload.email, password |-> payload.password]

\* UserManager.create_user(is_active=..., email, password)
create_user(is_active, user_data) ==
    [email |-> user_data.email,
     password |-> make_password(user_data.password),
     is_active |-> is_active,
     is_staff |-> FALSE,
     is_superuser |-> FALSE,
     last_login |-> "null"]

\* Faulty variant of create: the account is created active.
create_active(caller, payload) ==
    LET user_data == UserCreateSerializer(payload)
        r(status, detail) == Response("create", status, detail, payload.email, 0)
    IN  IF caller # Anonymous /\ ~users[caller].is_staff
        THEN Reject(r(403, "You do not have permission to perform this action."))
        ELSE IF UserByEmail(user_data.email) # 0
        THEN Reject(r(400, "User with this email already exists."))
        ELSE /\ Len(users) < MaxUsers
             /\ CanIssue
             /\ users' = Append(users, create_user(TRUE, user_data))
             /\ SendOtpEmail(user_data.email, "activation")
             /\ resp' = r(201, "")
             /\ UNCHANGED <<pending, used, jwt, lapsed, flight>>

\* Faulty variant of create: the activation mail goes out before the insert,
\* so a duplicate registration is refused only after a mail was sent.
create_mail_before_insert(caller, payload) ==
    LET user_data == UserCreateSerializer(payload)
        r(status, detail) == Response("create", status, detail, payload.email, 0)
    IN  IF caller # Anonymous /\ ~users[caller].is_staff
        THEN Reject(r(403, "You do not have permission to perform this action."))
        ELSE IF UserByEmail(user_data.email) # 0
        THEN /\ CanIssue
             /\ SendOtpEmail(user_data.email, "activation")
             /\ resp' = r(400, "User with this email already exists.")
             /\ UNCHANGED <<users, pending, used, jwt, lapsed, flight>>
        ELSE /\ Len(users) < MaxUsers
             /\ CanIssue
             /\ users' = Append(users, create_user(FALSE, user_data))
             /\ SendOtpEmail(user_data.email, "activation")
             /\ resp' = r(201, "")
             /\ UNCHANGED <<pending, used, jwt, lapsed, flight>>

create(caller, payload) ==
    LET user_data == UserCreateSerializer(payload)
        r(status, detail) == Response("create", status, detail, payload.email, 0)
    IN  IF caller # Anonymous /\ ~users[caller].is_staff
        THEN Reject(r(403, "You do not have permission to perform this action."))
        ELSE IF UserByEmail(user_data.email) # 0
        THEN \* IntegrityError
             Reject(r(400, "User with this email already exists."))
        ELSE /\ Len(users) < MaxUsers
             /\ CanIssue
             /\ users' = Append(users, create_user(FALSE, user_data))
             /\ SendOtpEmail(user_data.email, "activation")
             /\ resp' = r(201, "")
             /\ UNCHANGED <<pending, used, jwt, lapsed, flight>>

\* -------------------------------------------------------------- activation
\* ActivationSerializer: the account exists, is not active yet, and the OTP
\* verifies for (email, activation).  "" when the data is valid.
ActivationSerializer(email, otp) ==
    LET u == UserByEmail(email)
    IN  IF u = 0 THEN "ValidationError"
        ELSE IF users[u].is_active THEN "AlreadyActive"
        ELSE IF ~verify(tokens, email, "activation", otp) THEN "InvalidOrExpiredToken"
        ELSE ""

\* Faulty variant of activation: is_active is not set before saving.
activation_not_activating(email, otp) ==
    LET error == ActivationSerializer(email, otp)
        user == UserByEmail(email)
        r(status, detail) == Response("activation", status, detail, email, otp)
    IN  IF error # ""
        THEN Reject(r(400, error))
        ELSE /\ tokens' = invalidate(tokens, email, "activation")
             /\ used' = used \cup {otp}
             /\ users' = [users EXCEPT ![user].last_login = "stamped"]
             /\ jwt' = [jwt EXCEPT ![user] = @ + 1]
             /\ resp' = r(200, "")
             /\ UNCHANGED <<pending, outbox, nextCode, lapsed, flight>>

\* Faulty variant of activation: validation errors are not raised, the
\* account named by the email is activated whatever the OTP.
activation_unvalidated(email, otp) ==
    LET user == UserByEmail(email)
        r(status, detail) == Response("activation", status, detail, email, otp)
    IN  IF user = 0
        THEN Reject(r(400, "ValidationError"))
        ELSE /\ users' = [users EXCEPT ![user].is_active = TRUE,
                                       ![user].last_login = "stamped"]
             /\ jwt' = [jwt EXCEPT ![user] = @ + 1]
             /\ resp' = r(200, "")
             /\ UNCHANGED <<tokens, used, pending, outbox, nextCode, lapsed, flight>>

\* Faulty variant of activation: update_last_login is not called before the
\* tokens are created.
activation_no_last_login(email, otp) ==
    LET error == ActivationSerializer(email, otp)
        user == UserByEmail(email)
        r(status, detail) == Response("activation", status, detail, email, otp)
    IN  IF error # ""
        THEN Reject(r(400, error))
        ELSE /\ tokens' = invalidate(tokens, email, "activation")
             /\ used' = used \cup {otp}
             /\ users' = [users EXCEPT ![user].is_active = TRUE]
             /\ jwt' = [jwt EXCEPT ![user] = @ + 1]
             /\ resp' = r(200, "")
             /\ UNCHANGED <<pending, outbox, nextCode, lapsed, flight>>

activation(email, otp) ==
    LET error == ActivationSerializer(email, otp)
        user == UserByEmail(email)
        r(status, detail) == Response("activation", status, detail, email, otp)
    IN  IF error # ""
        THEN Reject(r(400, error))
        ELSE /\ tokens' = invalidate(tokens, email, "activation")
             /\ used' = used \cup {otp}
             /\ users' = [users EXCEPT ![user].is_active = TRUE,
                                       ![user].last_login = "stamped"]
             /\ jwt' = [jwt EXCEPT ![user] = @ + 1]
             /\ resp' = r(200, "")
             /\ UNCHANGED <<pending, outbox, nextCode, lapsed, flight>>

\* ------------------------------------------------------- resend activation
\* ResendActivationSerializer / ResetPasswordSerializer: the account exists.
UserEmailSerializer(email) == IF UserByEmail(email) = 0 THEN "ValidationError" ELSE ""

\* Faulty variant of resend_activation: 204 without calling the email service.
resend_activation_no_mail(email) ==
    LET error == UserEmailSerializer(email)
        user == UserByEmail(email)
        r(status, detail) == Response("resend_activation", status, detail, email, 0)
    IN  IF error # ""
        THEN Reject(r(400, error))
        ELSE IF ~users[user].is_active
        THEN Reject(r(204, ""))
        ELSE Reject(r(400, "This user is already activated."))

\* Faulty variant of resend_activation: is_active is not looked at.
resend_activation_unchecked(email) ==
    LET error == UserEmailSerializer(email)
        user == UserByEmail(email)
        r(status, detail) == Response("resend_activation", status, detail, email, 0)
    IN  IF error # ""
        THEN Reject(r(400, error))
        ELSE /\ CanIssue
             /\ SendOtpEmail(users[user].email, "activation")
             /\ resp' = r(204, "")
             /\ UNCHANGED <<users, pending, used, jwt, lapsed, flight>>

resend_activation(email) ==
    LET error == UserEmailSerializer(email)
        user == UserByEmail(email)
        r(status, detail) == Response("resend_activation", status, detail, email, 0)
    IN  IF error # ""
        THEN Reject(r(400, error))
        ELSE IF ~users[user].is_active
        THEN /\ CanIssue
             /\ SendOtpEmail(users[user].email, "activation")
             /\ resp' = r(204, "")
             /\ UNCHANGED <<users, pending, used, jwt, lapsed, flight>>
        ELSE Reject(r(400, "This user is already activated."))

\* ------------------------------------------------------------ change email
\* UserVerification.objects.update_or_create(user=, new_email=): both fields
\* are lookup keys, so a row is created unless this very pair is stored.
update_or_create(rows, user, new_email) == rows \cup {<<user, new_email>>}

change_email(caller, new_email) ==
    /\ CanIssue
    /\ pending' = update_or_create(pending, caller, new_email)
    /\ SendOtpEmail(new_email, "change_email")
    /\ resp' = Response("change_email", 204, "", new_email, 0)
    /\ UNCHANGED <<users, used, jwt, lapsed, flight>>

\* ChangeEmailConformationSerializer: the OTP verifies for the new address.
ChangeEmailConformationSerializer(new_email, otp) ==
    IF ~verify(tokens, new_email, "change_email", otp)
    THEN "InvalidOrExpiredToken" ELSE ""

\* UserVerification.objects.get(user=...) finds exactly one row or raises.
PendingOf(user) == {row \in pending : row[1] = user}

\* Faulty variant of change_email_conformation: the submitted email is not
\* compared with the stored one.
change_email_conformation_unchecked(caller, new_email, otp) ==
    LET error == ChangeEmailConformationSerializer(new_email, otp)
        r(status, detail) ==
            Response("change_email_conformation", status, detail, new_email, otp)
        rows == PendingOf(caller)
        owner == UserByEmail(new_email)
    IN  IF error # ""
        THEN Reject(r(400, error))
        ELSE /\ tokens' = invalidate(tokens, new_email, "change_email")
             /\ used' = used \cup {otp}
             /\ UNCHANGED <<outbox, jwt, nextCode, lapsed, flight>>
             /\ IF rows = {}
                THEN /\ resp' = r(500, "DoesNotExist")
                     /\ UNCHANGED <<users, pending>>
                ELSE IF Cardinality(rows) > 1
                THEN /\ resp' = r(500, "MultipleObjectsReturned")
                     /\ UNCHANGED <<users, pending>>
                ELSE IF owner # 0 /\ owner # caller
                THEN /\ resp' = r(500, "IntegrityError")
                     /\ UNCHANGED <<users, pending>>
                ELSE /\ users' = [users EXCEPT ![caller].email = new_email]
                     /\ pending' = pending \ rows
                     /\ resp' = r(204, "")

change_email_conformation(caller, new_email, otp) ==
    LET error == ChangeEmailConformationSerializer(new_email, otp)
        r(status, detail) ==
            Response("change_email_conformation", status, detail, new_email, otp)
        rows == PendingOf(caller)
        owner == UserByEmail(new_email)
    IN  IF error # ""
        THEN Reject(r(400, error))
        ELSE /\ tokens' = invalidate(tokens, new_email, "change_email")
             /\ used' = used \cup {otp}
             /\ UNCHANGED <<outbox, jwt, nextCode, lapsed, flight>>
             /\ IF rows = {}
                THEN /\ resp' = r(500, "DoesNotExist")
                     /\ UNCHANGED <<users, pending>>
                ELSE IF Cardinality(rows) > 1
                THEN /\ resp' = r(500, "MultipleObjectsReturned")
                     /\ UNCHANGED <<users, pending>>
                ELSE IF <<caller, new_email>> \in rows
                THEN IF owner # 0 /\ owner # caller
                     THEN \* user.save() violates the unique email
                          /\ resp' = r(500, "IntegrityError")
                          /\ UNCHANGED <<users, pending>>
                     ELSE /\ users' = [users EXCEPT ![caller].email = new_email]
                          /\ pending' = pending \ rows
                          /\ resp' = r(204, "")
                ELSE /\ resp' = r(400, "The email entered does not match the requested email.")
                     /\ UNCHANGED <<users, pending>>

\* ---------------------------------------------------------- reset password
\* Faulty variant of reset_password: is_active is not looked at.
reset_password_unchecked(email) ==
    LET error == UserEmailSerializer(email)
        user == UserByEmail(email)
        r(status, detail) == Response("reset_password", status, detail, email, 0)
    IN  IF error # ""
        THEN Reject(r(400, error))
        ELSE /\ CanIssue
             /\ SendOtpEmail(users[user].email, "reset_password")
             /\ resp' = r(204, "")
             /\ UNCHANGED <<users, pending, used, jwt, lapsed, flight>>

reset_password(email) ==
    LET error == UserEmailSerializer(email)
        user == UserByEmail(email)
        r(status, detail) == Response("reset_password", status, detail, email, 0)
    IN  IF error # ""
        THEN Reject(r(400, error))
        ELSE IF users[user].is_active
        THEN /\ CanIssue
             /\ SendOtpEmail(users[user].email, "reset_password")
             /\ resp' = r(204, "")
             /\ UNCHANGED <<users, pending, used, jwt, lapsed, flight>>
        ELSE Reject(r(400, "first activate you account"))

\* ResetPasswordConformationSerializer: the account exists and is active, and
\* the OTP verifies for (email, reset_password).  "" when the data is valid.
ResetPasswordConformationSerializer(email, otp) ==
    LET u == UserByEmail(email)
    IN  IF u = 0 THEN "ValidationError"
        ELSE IF ~users[u].is_active THEN "NotYetActive"
        ELSE IF ~verify(tokens, email, "reset_password", otp) THEN "InvalidOrExpiredToken"
        ELSE ""

\* Faulty variant of reset_password_conformation: set_password is not called.
reset_password_conformation_no_set(email, otp, new_password) ==
    LET error == ResetPasswordConformationSerializer(email, otp)
        r(status, detail) ==
            Response("reset_password_conformation", status, detail, email, otp)
    IN  IF error # ""
        THEN Reject(r(400, error))
        ELSE /\ tokens' = invalidate(tokens, email, "reset_password")
             /\ used' = used \cup {otp}
             /\ resp' = r(204, "")
             /\ UNCHANGED <<users, pending, outbox, jwt, nextCode, lapsed, flight>>

reset_password_conformation(email, otp, new_password) ==
    LET error == ResetPasswordConformationSerializer(email, otp)
        user == UserByEmail(email)
        r(status, detail) ==
            Response("reset_password_conformation", status, detail, email, otp)
    IN  IF error # ""
        THEN Reject(r(400, error))
        ELSE /\ tokens' = invalidate(tokens, email, "reset_password")
             /\ used' = used \cup {otp}
             /\ users' = [users EXCEPT ![user].password = make_password(new_password)]
             /\ resp' = r(204, "")
             /\ UNCHANGED <<pending, outbox, jwt, nextCode, lapsed, flight>>

\* ------------------------------------------------------------ environment
\* Request payloads of create; "extra" stands for the keys is_active,
\* is_staff and is_superuser sent as true.
Payloads == [email : Emails, password : {RegistrationPassword}, extra : BOOLEAN]

\* Stored codes that are still inside their window.
Live == {c \in (lapsed + 1)..(nextCode - 1) : \E k \in DOMAIN tokens : tokens[k] = c}

\* The clock is observed only through the stored tokens: it advances to the
\* end of the window of the oldest stored code still inside it.
Tick ==
    /\ Idle
    /\ Live # {}
    /\ lapsed' = CHOOSE c \in Live : \A d \in Live : c <= d
    /\ UNCHANGED <<users, tokens, pending, outbox, used, jwt, nextCode, resp, flight>>

\* The response goes back to the client.
Return ==
    /\ ~Idle
    /\ resp' = NoResponse
    /\ UNCHANGED <<users, tokens, pending, outbox, used, jwt, nextCode, lapsed, flight>>

Next ==
    \/ Idle /\ \E c \in {Anonymous} \cup Authenticated, p \in Payloads : create(c, p)
    \/ Idle /\ \E e \in Emails, o \in Otps : activation(e, o)
    \/ Idle /\ \E e \in Emails : resend_activation(e)
    \/ Idle /\ \E c \in Authenticated, e \in Emails : change_email(c, e)
    \/ Idle /\ \E c \in Authenticated, e \in Emails, o \in Otps :
                  change_email_conformation(c, e, o)
    \/ Idle /\ \E e \in Emails : reset_password(e)
    \/ Idle /\ \E e \in Emails, o \in Otps, p \in Passwords :
                  reset_password_conformation(e, o, p)
    \/ Return
    \/ Tick

Spec == Init /\ [][Next]_vars

\* ------------------------------------------------------ concurrent requests
\* Two confirmation requests in progress at once.  A request is handled in
\* the steps its code takes against the database: the serializer loads the
\* account, the token is verified, the view writes the account.  Steps of
\* different requests interleave freely.
ConfirmPurpose(op) == IF op = "activation" THEN "activation" ELSE "reset_password"

\* A request arrives at worker w.
BeginRequest(w, op, email, otp, password) ==
    /\ flight[w].pc = "idle"
    /\ flight' = [flight EXCEPT ![w] =
          [NoRequest EXCEPT !.pc = "load", !.op = op, !.email = email,
                            !.otp = otp, !.password = password]]
    /\ UNCHANGED <<users, tokens, pending, outbox, used, jwt, nextCode, lapsed, resp>>

\* The client sends the request worker 1 is handling once more (a double
\* submit, a retry on a slow response): same operation, email, code and
\* password, handled by worker 2 while worker 1 is still at work.
Resubmit ==
    /\ flight[1].pc \notin {"idle", "done"}
    /\ BeginRequest(2, flight[1].op, flight[1].email, flight[1].otp, flight[1].password)

\* The response of worker w: nothing more is done for the request.
Respond(w, status, detail) ==
    [flight EXCEPT ![w].pc = "done", ![w].status = status, ![w].detail = detail]

\* The serializer reads the account named by the email and checks its state.
LoadUser(w) ==
    LET q == flight[w]
        u == UserByEmail(q.email)
    IN  /\ q.pc = "load"
        /\ flight' =
              IF u = 0 THEN Respond(w, 400, "ValidationError")
              ELSE IF q.op = "activation" /\ users[u].is_active
              THEN Respond(w, 400, "AlreadyActive")
              ELSE IF q.op = "reset_password_conformation" /\ ~users[u].is_active
              THEN Respond(w, 400, "NotYetActive")
              ELSE [flight EXCEPT ![w].pc = "verify", ![w].user = u, ![w].row = users[u]]
        /\ UNCHANGED <<users, tokens, pending, outbox, used, jwt, nextCode, lapsed, resp>>

\* Faulty variant of is_valid: a failed validation is not raised, the view
\* goes on with the request.
is_valid_not_raised(w) ==
    LET q == flight[w]
        purpose == ConfirmPurpose(q.op)
    IN  /\ q.pc = "verify"
        /\ IF verify(tokens, q.email, purpose, q.otp)
           THEN /\ tokens' = invalidate(tokens, q.email, purpose)
                /\ used' = used \cup {q.otp}
           ELSE UNCHANGED <<tokens, used>>
        /\ flight' = [flight EXCEPT ![w].pc = "save"]
        /\ UNCHANGED <<users, pending, outbox, jwt, nextCode, lapsed, resp>>

\* serializer.is_valid(raise_exception=True): the token is verified and, when
\* it verifies, invalidated in the same update; a failure ends the request.
is_valid(w) ==
    LET q == flight[w]
        purpose == ConfirmPurpose(q.op)
    IN  /\ q.pc = "verify"
        /\ IF verify(tokens, q.email, purpose, q.otp)
           THEN /\ tokens' = invalidate(tokens, q.email, purpose)
                /\ used' = used \cup {q.otp}
                /\ flight' = [flight EXCEPT ![w].pc = "save"]
           ELSE /\ flight' = Respond(w, 400, "InvalidOrExpiredToken")
                /\ UNCHANGED <<tokens, used>>
        /\ UNCHANGED <<users, pending, outbox, jwt, nextCode, lapsed, resp>>

\* The view writes the account it loaded: user.save() stores every field of
\* the instance, update_last_login one more; then the response is built.
save(w) ==
    LET q == flight[w] IN
    /\ q.pc = "save"
    /\ IF q.op = "activation"
       THEN /\ users' = [users EXCEPT ![q.user] =
                   [q.row EXCEPT !.is_active = TRUE, !.last_login = "stamped"]]
            /\ jwt' = [jwt EXCEPT ![q.user] = @ + 1]
            /\ flight' = Respond(w, 200, "")
       ELSE /\ users' = [users EXCEPT ![q.user] =
                   [q.row EXCEPT !.password = make_password(q.password)]]
            /\ jwt' = jwt
            /\ flight' = Respond(w, 204, "")
    /\ UNCHANGED <<tokens, pending, outbox, used, nextCode, lapsed, resp>>

\* The response of worker w goes back to the client.
EndRequest(w) ==
    /\ flight[w].pc = "done"
    /\ flight' = [flight EXCEPT ![w] = NoRequest]
    /\ UNCHANGED <<users, tokens, pending, outbox, used, jwt, nextCode, lapsed, resp>>

\* Responses go back before anything else is handled: a step is taken when
\* no response is waiting to be returned.
Quiet == Idle /\ \A w \in Workers : flight[w].pc # "done"

\* A new request is taken up when the resubmitted one has been answered.
Settled == flight[2].pc = "idle"

\* Registration and the requests that issue codes are handled as before,
\* between the steps of the two confirmation requests.
NextConcurrent ==
    \/ Quiet /\ \E p \in Payloads : create(Anonymous, p)
    \/ Quiet /\ \E e \in Emails : resend_activation(e)
    \/ Quiet /\ \E e \in Emails : reset_password(e)
    \/ Return
    \/ Quiet /\ Tick
    \/ Quiet /\ Settled /\ \E e \in Emails, o \in Otps :
          BeginRequest(1, "activation", e, o, "")
    \/ Quiet /\ Settled /\ \E e \in Emails, o \in Otps, p \in Passwords :
          BeginRequest(1, "reset_password_conformation", e, o, p)
    \/ Quiet /\ Resubmit
    \/ Quiet /\ \E w \in Workers : LoadUser(w)
    \/ Quiet /\ \E w \in Workers : is_valid(w)
    \/ Quiet /\ \E w \in Workers : save(w)
    \/ \E w \in Workers : EndRequest(w)

SpecConcurrent == Init /\ [][NextConcurrent]_vars

\* ================================================================= claims
\* A step in which the handler of operation op runs.
Handled(op) == Idle /\ resp'.op = op

\* The history of issued codes is the outbox: code c was mailed as outbox[c].
Issued(otp) == otp \in DOMAIN outbox

IssuedFor(otp, email, purpose) ==
    /\ Issued(otp)
    /\ outbox[otp].to = email
    /\ outbox[otp].purpose = purpose

\* The code mailed last for the pair, 0 if none was.
LatestCode(email, purpose) ==
    LET S == {c \in DOMAIN outbox : IssuedFor(c, email, purpose)}
    IN  IF S = {} THEN 0 ELSE CHOOSE c \in S : \A d \in S : d <= c

\* What the history says should verify: the newest code issued for exactly
\* this pair, still inside its window and not used yet.
Honoured(email, purpose, otp) ==
    /\ IssuedFor(otp, email, purpose)
    /\ LatestCode(email, purpose) = otp
    /\ ~Expired(otp)
    /\ otp \notin used

\* ---- C1
ActivationOnce ==
    /\ \A u \in UserIds : users[u].is_active => users'[u].is_active
    /\ Handled("activation") =>
         LET u == UserByEmail(resp'.email)
         IN  /\ (u # 0 /\ users[u].is_active) =>
                    /\ resp'.status = 400
                    /\ users' = users
                    /\ jwt' = jwt
             /\ resp'.status = 200 <=>
                    /\ u # 0
                    /\ ~users[u].is_active
                    /\ Honoured(resp'.email, "activation", resp'.otp)
             /\ resp'.status = 200 =>
                    /\ users'[u].is_active
                    /\ \A v \in UserIds \ {u} : users'[v] = users[v]

\* C1: activation with a correct, unexpired code moves an inactive account to
\* active; every activation request for an account that is already active
\* fails and changes nothing; no step moves an active account back to inactive.
C1_ActivationExactlyOnce == [][ActivationOnce]_vars

\* An activation request for an active account, presenting the very code the
\* account was activated with, has just been rejected.
C1_Witness ==
    /\ resp.op = "activation"
    /\ resp.status = 400
    /\ resp.detail = "AlreadyActive"
    /\ IssuedFor(resp.otp, resp.email, "activation")
    /\ resp.otp \in used
    /\ ~Expired(resp.otp)

\* ---- C2
WrongCode(email, otp) ==
    \/ ~Issued(otp)
    \/ Issued(otp) /\ outbox[otp].to # email

\* C2: an activation request for an inactive account with a code that was
\* never issued, or was issued for a different email, fails and the account
\* is still inactive afterwards.
C2_WrongCodeLeavesInactive ==
    [][Handled("activation") =>
         LET u == UserByEmail(resp'.email)
         IN  (u # 0 /\ ~users[u].is_active /\ WrongCode(resp'.email, resp'.otp)) =>
                 /\ resp'.status = 400
                 /\ ~users'[u].is_active
                 /\ jwt' = jwt]_vars

\* An inactive account was refused activation with a code that is live for
\* the other email address.
C2_Witness ==
    /\ resp.op = "activation"
    /\ resp.status = 400
    /\ UserByEmail(resp.email) # 0
    /\ ~users[UserByEmail(resp.email)].is_active
    /\ Issued(resp.otp)
    /\ outbox[resp.otp].to # resp.email
    /\ Honoured(outbox[resp.otp].to, outbox[resp.otp].purpose, resp.otp)

ConfirmOps == {"activation", "change_email_conformation", "reset_password_conformation"}

\* C4: a confirmation request presenting a code that has already been
\* verified successfully fails, whatever the confirmation step, and changes
\* neither the accounts nor the token store.
C4_SingleUse ==
    [][(\E op \in ConfirmOps : Handled(op)) /\ resp'.otp \in used =>
          /\ resp'.status = 400
          /\ users' = users
          /\ tokens' = tokens
          /\ jwt' = jwt]_vars

\* A password-reset confirmation replayed the code of an earlier successful
\* one, inside the window, for an account that is active, and was refused.
C4_Witness ==
    /\ resp.op = "reset_password_conformation"
    /\ resp.status = 400
    /\ resp.detail = "InvalidOrExpiredToken"
    /\ resp.otp \in used
    /\ ~Expired(resp.otp)
    /\ IssuedFor(resp.otp, resp.email, "reset_password")
    /\ LatestCode(resp.email, "reset_password") = resp.otp

C6_ResendActiveRejected ==
    [][Handled("resend_activation") =>
         LET u == UserByEmail(resp'.email)
         IN  (u # 0 /\ users[u].is_active) =>
                 /\ resp'.status = 400
                 /\ resp'.detail = "This user is already activated."
                 /\ UNCHANGED <<users, tokens, pending, outbox, used, jwt, nextCode>>]_vars

C6_Witness ==
    /\ resp.op = "resend_activation"
    /\ resp.status = 400
    /\ UserByEmail(resp.email) # 0
    /\ users[UserByEmail(resp.email)].is_active
    /\ nextCode <= MaxCodes

\* ---- C7
\* C7: email-change confirmation commits the new email only when the code
\* verifies for it and it is a pending new email of the requesting account;
\* when the code does not verify, or the email is not the stored one, the
\* request fails and no account changes.
C7_ConfirmNeedsBoth ==
    [][Handled("change_email_conformation") =>
         \A c \in Authenticated :
             change_email_conformation(c, resp'.email, resp'.otp) =>
                 LET codeOk == verify(tokens, resp'.email, "change_email", resp'.otp)
                     emailOk == PendingOf(c) = {<<c, resp'.email>>}
                 IN  /\ resp'.status = 204 => (codeOk /\ emailOk)
                     /\ resp'.status = 204 => users'[c].email = resp'.email
                     /\ ~(codeOk /\ emailOk) =>
                            /\ resp'.status >= 400
                            /\ users' = users]_vars

\* The code verified but the submitted email is not the stored pending one.
C7_Witness ==
    /\ resp.op = "change_email_conformation"
    /\ resp.status = 400
    /\ resp.detail = "The email entered does not match the requested email."
    /\ resp.otp \in used

\* ---- C8
\* C8: for an inactive account a reset request answers 400 without issuing a
\* token or sending an email, a reset confirmation answers 400, and neither
\* step changes its credential.
C8_InactiveCannotReset ==
    [][(Handled("reset_password") \/ Handled("reset_password_conformation")) =>
         LET u == UserByEmail(resp'.email)
         IN  (u # 0 /\ ~users[u].is_active) =>
                 /\ resp'.status = 400
                 /\ users' = users
                 /\ UNCHANGED <<tokens, outbox, nextCode>>]_vars

C8_Witness ==
    /\ resp.op = "reset_password"
    /\ resp.status = 400
    /\ resp.detail = "first activate you account"
    /\ ~users[UserByEmail(resp.email)].is_active
    /\ nextCode <= MaxCodes

\* ---- C9
Authenticates(us, u) == {p \in Passwords : check_password(p, us[u].password)}

\* C9 as stated: after a successful reset confirmation the new password
\* authenticates and the password that authenticated before does not.
C9_OldPasswordRejected ==
    [][Handled("reset_password_conformation") /\ resp'.status = 204 =>
         LET u == UserByEmail(resp'.email)
         IN  /\ Authenticates(users', u) # {}
             /\ Authenticates(users', u) \cap Authenticates(users, u) = {}]_vars

\* C9 amended: a reset confirmation succeeds exactly for an active account
\* with a code honoured for (email, reset_password); then the new password,
\* and no other, authenticates (so the old one does not unless it is the
\* new one); otherwise no credential changes.
C9_ResetReplacesCredential ==
    [][Handled("reset_password_conformation") =>
         LET u == UserByEmail(resp'.email)
         IN  /\ resp'.status = 204 <=>
                    /\ u # 0
                    /\ users[u].is_active
                    /\ Honoured(resp'.email, "reset_password", resp'.otp)
             /\ resp'.status # 204 => users' = users
             /\ \A p \in Passwords :
                    (reset_password_conformation(resp'.email, resp'.otp, p)
                       /\ resp'.status = 204) =>
                        Authenticates(users', u) = {p}]_vars

\* A reset confirmation succeeded and the account now authenticates with a
\* password other than the registration one.
C9_Witness ==
    /\ resp.op = "reset_password_conformation"
    /\ resp.status = 204
    /\ Authenticates(users, UserByEmail(resp.email)) = {"New_5678"}

\* ---- C10
\* C10: a successful registration adds exactly one account, which is
\* inactive, non-staff and non-superuser; accounts are added by nothing else;
\* an inactive account becomes active only in a successful activation
\* step for its email.
C10_RegisteredInactive ==
    [][/\ (Handled("create") /\ resp'.status = 201) =>
             /\ Len(users') = Len(users) + 1
             /\ users'[Len(users')].email = resp'.email
             /\ ~users'[Len(users')].is_active
             /\ ~users'[Len(users')].is_staff
             /\ ~users'[Len(users')].is_superuser
       /\ Len(users') # Len(users) => (Handled("create") /\ resp'.status = 201)
       /\ \A u \in UserIds :
             (~users[u].is_active /\ users'[u].is_active) =>
                 /\ Handled("activation")
                 /\ resp'.status = 200
                 /\ resp'.email = users[u].email]_vars

C10_Witness ==
    /\ resp.op = "create"
    /\ resp.status = 201
    /\ users[Len(users)].email = resp.email
    /\ ~users[Len(users)].is_active

Succeeding(w) ==
    \/ flight[w].pc = "save"
    \/ flight[w].pc = "done" /\ flight[w].status < 400

WorkflowOps ==
    {"create", "activation", "resend_activation", "change_email",
     "change_email_conformation", "reset_password", "reset_password_conformation"}

\* C13: the count of minted credential pairs changes only in a successful
\* activation step, by one pair, for the account being activated, which is
\* active with its last login stamped when the pair exists; every failed step and every step other than activation leaves the
\* counts alone; an account holding credentials minted by the workflow is
\* active and has a last login.
C13_MintOnlyOnActivation ==
    [][/\ jwt' # jwt =>
             /\ Handled("activation")
             /\ resp'.status = 200
             /\ LET u == UserByEmail(resp'.email)
                IN  /\ u # 0
                    /\ jwt' = [jwt EXCEPT ![u] = @ + 1]
                    /\ users'[u].is_active
                    /\ users'[u].last_login = "stamped"
       /\ \A op \in WorkflowOps :
             (Handled(op) /\ (op # "activation" \/ resp'.status >= 400)) => jwt' = jwt
       /\ \A u \in UserIds :
             jwt[u] > 0 => (users[u].is_active /\ users[u].last_login = "stamped")]_vars

\* An account was activated with a resent code and holds the one credential
\* pair of that activation: the resend before it minted nothing.
C13_Witness ==
    /\ resp.op = "activation"
    /\ resp.status = 200
    /\ LET u == UserByEmail(resp.email)
       IN  /\ jwt[u] = 1
           /\ users[u].is_active
           /\ users[u].last_login = "stamped"
    /\ \E o \in DOMAIN outbox :
          /\ IssuedFor(o, resp.email, "activation")
          /\ o < resp.otp

\* ---- C14
\* C14: after every change-email request of an account, the account has
\* exactly one pending email-change record and it holds the address just
\* requested; so no account ever has more than one pending record.
C14_SinglePendingRecord ==
    [][/\ \A c \in Authenticated, e \in Emails :
             (Idle /\ change_email(c, e)) => PendingOf(c)' = {<<c, e>>}
       /\ \A u \in UserIds : Cardinality(PendingOf(u)) <= 1]_vars

\* ---- C15
\* C15: no two accounts ever hold the same email; and a confirmation of an
\* email change whose code verifies and whose pending address is by now the
\* email of another account answers 400 and changes no account.
C15_EmailsStayUnique ==
    [][/\ \A u, v \in UserIds : u # v => users[u].email # users[v].email
       /\ \A c \in Authenticated, e \in Emails, o \in Otps :
             (/\ Idle
              /\ change_email_conformation(c, e, o)
              /\ verify(tokens, e, "change_email", o)
              /\ PendingOf(c) = {<<c, e>>}
              /\ UserByEmail(e) \notin {0, c}) =>
                 /\ resp'.status = 400
                 /\ users' = users]_vars
====
